---- MODULE Spec2Model ----
(***************************************************************************)
(* ProjectProcessor (src/modules/project_processor.py) behind the API of   *)
(* src/api.py: one long-lived processor, on which load_project,            *)
(* set_setlist and export_rpp_project are called in any order.             *)
(*                                                                         *)
(* Text is a sequence of atoms.  An atom is a string that stands for the   *)
(* characters it spells: the keyword MARKER, the anchor <PROJBAY, a space, *)
(* a newline, a double quote, a brace, one digit, a decimal point, a minus *)
(* sign, or a word that contains none of these.  A field of a marker line  *)
(* (a pandas cell) is again a sequence of atoms; the empty string is <<>>. *)
(***************************************************************************)
EXTENDS Integers, Sequences, FiniteSets, TLC

KW == "MARKER"
SP == " "
NL == "\n"
QT == "\""
LB == "{"
RB == "}"
PROJBAY == "<PROJBAY"

\* The two missing cells of a DataFrame: None (a padded cell, or one assigned
\* None) and NaN (the cell shift(-1) leaves in the last row).
None == <<"<None>">>

NaN == <<"<NaN>">>

IsNa(cell) == cell = None \/ cell = NaN

Min(a, b) == IF a < b THEN a ELSE b

\* str.find(atom): 0-based offset of the first occurrence, -1 when absent.
Find(t, a) ==
  IF \E i \in 1..Len(t) : t[i] = a
  THEN (CHOOSE i \in 1..Len(t) : t[i] = a /\ \A j \in 1..(i - 1) : t[j] # a) - 1
  ELSE -1

\* Python slices s[:p] and s[p:] for p >= -1 (a negative p counts from the end).
SliceTo(s, p) ==
  IF p >= 0 THEN SubSeq(s, 1, Min(p, Len(s)))
  ELSE SubSeq(s, 1, Len(s) + p)

SliceFrom(s, p) ==
  IF p >= 0 THEN SubSeq(s, p + 1, Len(s))
  ELSE SubSeq(s, IF Len(s) + p + 1 < 1 THEN 1 ELSE Len(s) + p + 1, Len(s))

RECURSIVE Concat(_)
Concat(ss) == IF ss = <<>> THEN <<>> ELSE Head(ss) \o Concat(Tail(ss))

\* str.replace(a, ''): every occurrence of the atom removed.
Without(t, a) == SelectSeq(t, LAMBDA x : x # a)

RECURSIVE Ascending(_)
\* The members of a set of integers in ascending order.
Ascending(S) ==
  IF S = {} THEN <<>>
  ELSE LET m == CHOOSE x \in S : \A y \in S : x <= y
       IN <<m>> \o Ascending(S \ {m})

\* The lines of a text, each with the newline that ends it; the last one has
\* none when the text does not end in a newline.
SplitLines(t) ==
  LET e == Ascending({i \in 1..Len(t) : t[i] = NL})
      n == Len(e)
      whole == [k \in 1..n |-> SubSeq(t, IF k = 1 THEN 1 ELSE e[k - 1] + 1, e[k])]
  IN IF n = 0 THEN (IF t = <<>> THEN <<>> ELSE <<t>>)
     ELSE IF e[n] < Len(t) THEN Append(whole, SubSeq(t, e[n] + 1, Len(t)))
     ELSE whole

HasAtom(t, a) == \E i \in 1..Len(t) : t[i] = a

EndsInNewline(line) == line # <<>> /\ line[Len(line)] = NL

\* A line without the newline that ends it.
Chomp(line) == IF EndsInNewline(line) THEN SubSeq(line, 1, Len(line) - 1) ELSE line

\* re.findall(r'MARKER.*', text): from each line that holds the keyword, the
\* text from the first MARKER of the line to the end of the line (the newline
\* excluded).
FindAllMarker(t) ==
  LET hits == SelectSeq(SplitLines(t), LAMBDA line : HasAtom(line, KW))
  IN [k \in 1..Len(hits) |-> SliceFrom(Chomp(hits[k]), Find(hits[k], KW))]

\* The lookahead (?=(?:[^"]*"[^"]*")*[^"]*$): an even number of quotes follows.
EvenQuotesAfter(m, i) ==
  Cardinality({j \in (i + 1)..Len(m) : m[j] = QT}) % 2 = 0

\* re.split(r' (?=...)', x): split at the spaces outside double quotes.
SplitFields(m) ==
  LET cuts == Ascending({i \in 1..Len(m) : m[i] = SP /\ EvenQuotesAfter(m, i)})
      n == Len(cuts)
  IN [k \in 1..(n + 1) |->
        SubSeq(m, IF k = 1 THEN 1 ELSE cuts[k - 1] + 1,
                  IF k = n + 1 THEN Len(m) ELSE cuts[k] - 1)]

(***************************************************************************)
(* Character order.  Python compares strings by code point; the atoms that *)
(* occur in names and positions are listed with the code point of their    *)
(* first character (no two share a first character, so comparing atom by   *)
(* atom is comparing character by character).                              *)
(***************************************************************************)
Digits == <<"0", "1", "2", "3", "4", "5", "6", "7", "8", "9">>

IsDigit(a) == \E i \in 1..10 : Digits[i] = a

DigitVal(a) == (CHOOSE i \in 1..10 : Digits[i] = a) - 1

Code(a) ==
  CASE a = SP -> 32
    [] a = "!" -> 33
    [] a = "-" -> 45
    [] a = "." -> 46
    [] IsDigit(a) -> 48 + DigitVal(a)
    [] a = "Cue" -> 67
    [] a = "Ghost" -> 71
    [] a = "Intro" -> 73
    [] a = "Pad" -> 80
    [] a = "Song" -> 83
    [] a = "Verse" -> 86
    [] a = "A" -> 65
    [] OTHER -> 126

RECURSIVE StrLess(_, _)
\* Python's a < b on two strings.
StrLess(a, b) ==
  IF b = <<>> THEN FALSE
  ELSE IF a = <<>> THEN TRUE
  ELSE IF Code(Head(a)) # Code(Head(b)) THEN Code(Head(a)) < Code(Head(b))
  ELSE StrLess(Tail(a), Tail(b))

RECURSIVE SortedStrings(_)
\* list.sort() of a list of distinct strings, given as the set of its members.
SortedStrings(S) ==
  IF S = {} THEN <<>>
  ELSE LET m == CHOOSE x \in S : \A y \in S \ {x} : StrLess(x, y)
       IN <<m>> \o SortedStrings(S \ {m})

Range(s) == {s[i] : i \in 1..Len(s)}

(***************************************************************************)
(* load_project: the parse of the marker lines into the region table.      *)
(***************************************************************************)
NumColumns == 10

\* One list of fields as a row of the 10-column frame; short rows are padded
\* with None by the DataFrame constructor.
Cell(f, k) == IF k <= Len(f) THEN f[k] ELSE None

StrReplace(cell, a) == IF IsNa(cell) THEN cell ELSE Without(cell, a)

\* Lines 77-90: the frame of all marker lines, with name and uuid cleaned and
\* end_position taken from the start_position of the next row (shift(-1)),
\* NaN for the last row, None for every row whose is_region is '0'.
ParsedRows(fields) ==
  [i \in 1..Len(fields) |->
     [tag            |-> Cell(fields[i], 1),
      number         |-> Cell(fields[i], 2),
      start_position |-> Cell(fields[i], 3),
      name           |-> StrReplace(Cell(fields[i], 4), QT),
      is_region      |-> Cell(fields[i], 5),
      color          |-> Cell(fields[i], 6),
      uuid           |-> StrReplace(StrReplace(Cell(fields[i], 9), LB), RB),
      end_position   |-> IF Cell(fields[i], 5) = <<"0">> THEN None
                         ELSE IF i = Len(fields) THEN NaN
                         ELSE Cell(fields[i + 1], 3)]]

HasName(r) == r.name # <<>>

NotPointMarker(r) == r.is_region # <<"0">>

\* remove_all_markers_from_project: nothing happens on an empty frame.
RemoveAllMarkers(df) == IF df = <<>> THEN df ELSE SelectSeq(df, NotPointMarker)

IsSong(r) == r.is_region = <<"1">> /\ r.color # <<"0">>

\* extract_available_songs_in_project: the song list is left as it was when
\* the frame is empty.
ExtractSongs(df, old) ==
  IF df = <<>> THEN old
  ELSE SortedStrings({r.name : r \in {x \in Range(df) : IsSong(x)}})

\* The DataFrame constructor accepts the rows when there is none or when the
\* longest has exactly the 10 columns named; otherwise it raises ValueError.
FrameAccepted(fields) ==
  \/ fields = <<>>
  \/ /\ \A i \in 1..Len(fields) : Len(fields[i]) <= NumColumns
     /\ \E i \in 1..Len(fields) : Len(fields[i]) = NumColumns

MarkerFields(text) ==
  LET ms == FindAllMarker(text) IN [i \in 1..Len(ms) |-> SplitFields(ms[i])]

\* The table load_project stores in project_df (lines 72-100).
LoadedTable(text) ==
  RemoveAllMarkers(SelectSeq(ParsedRows(MarkerFields(text)), HasName))

(***************************************************************************)
(* Numbers.  float() is modelled on the unsigned decimal strings, digits    *)
(* with at most one decimal point, which is what a position is in a project *)
(* file; on any other string it raises ValueError, on None TypeError.       *)
(***************************************************************************)
IsDecimal(cell) ==
  /\ ~IsNa(cell)
  /\ \A i \in 1..Len(cell) : IsDigit(cell[i]) \/ cell[i] = "."
  /\ \E i \in 1..Len(cell) : IsDigit(cell[i])
  /\ Cardinality({i \in 1..Len(cell) : cell[i] = "."}) <= 1

RECURSIVE DigitsValue(_)
DigitsValue(ds) ==
  IF ds = <<>> THEN 0
  ELSE 10 * DigitsValue(SubSeq(ds, 1, Len(ds) - 1)) + DigitVal(ds[Len(ds)])

IntegerPart(cell) ==
  LET d == Find(cell, ".") IN DigitsValue(IF d = -1 THEN cell ELSE SliceTo(cell, d))

HasFraction(cell) ==
  LET d == Find(cell, ".")
  IN d # -1 /\ \E i \in (d + 2)..Len(cell) : cell[i] # "0"

RECURSIVE NatToStr(_)
NatToStr(n) ==
  IF n < 10 THEN <<Digits[n + 1]>>
  ELSE NatToStr(n \div 10) \o <<Digits[(n % 10) + 1]>>

\* str(n) of an integer.
IntToStr(n) == IF n < 0 THEN <<"-">> \o NatToStr(0 - n) ELSE NatToStr(n)

\* Line 297: int(float(x) - 1), which truncates towards zero.
EndMinusOne(cell) ==
  IF IntegerPart(cell) >= 1 THEN IntegerPart(cell) - 1
  ELSE IF HasFraction(cell) THEN 0
  ELSE -1

(***************************************************************************)
(* create_markers_from_setlist                                             *)
(***************************************************************************)
MarkerMapSize == 30

\* Lines 225-256.
marker_map ==
  [k \in 1..MarkerMapSize |->
     IF k <= 9 THEN 40160 + k ELSE IF k = 10 THEN 40160 ELSE 41240 + k]

LastSkipBase == 1016

\* The value of one uuid4() call: a fresh token, the k-th of the export.
Uuid4(k) == <<"uuid4-">> \o NatToStr(k)

\* One row of new_markers_df (lines 262-274, 280-292, 299-326).
NewMarker(number, start, name, k) ==
  [tag |-> <<KW>>, number |-> number, start_position |-> start,
   end_position |-> None, name |-> name, is_region |-> <<"0">>,
   color |-> <<"0">>, unkown_0 |-> <<"1">>, unknown_1 |-> <<"R">>,
   uuid |-> Uuid4(k), unkown_3 |-> <<"0">>]

SentinelMarker == NewMarker(<<"9", "9">>, <<"1">>, <<"!">> \o NatToStr(40161), 0)

\* df.loc[df['name'] == song, col]: the rows named song, in table order.
RowsNamed(df, song) == SelectSeq(df, LAMBDA r : r.name = song)

\* The exception one pass of the loop (lines 277-326) raises, "none" if none.
PassError(df, setlist, i) ==
  LET hit == RowsNamed(df, setlist[i + 1])
  IN IF hit = <<>> THEN "IndexError"
     ELSE IF hit[1].end_position = None THEN "TypeError"
     ELSE IF ~IsDecimal(hit[1].end_position) THEN "ValueError"
     ELSE IF i < Len(setlist) - 1 /\ (i + 2) \notin DOMAIN marker_map
          THEN "KeyError"
     ELSE "none"

SkipName(setlist, i) ==
  IF i < Len(setlist) - 1 THEN <<"!">> \o NatToStr(marker_map[i + 2])
  ELSE <<"!">> \o NatToStr(LastSkipBase + i)

\* The two markers of the pass for the entry at 0-based index i.
PassMarkers(df, setlist, i) ==
  LET hit == RowsNamed(df, setlist[i + 1])
  IN << NewMarker(IntToStr(i + 1), hit[1].start_position, setlist[i + 1],
                  2 * i + 1),
        NewMarker(IntToStr(Len(setlist) + i + 1),
                  IntToStr(EndMinusOne(hit[1].end_position)),
                  SkipName(setlist, i), 2 * i + 2) >>

\* The index of the first pass that raises, Len(setlist) when none does.
FirstRaising(df, setlist) ==
  LET bad == {i \in 0..(Len(setlist) - 1) : PassError(df, setlist, i) # "none"}
  IN IF bad = {} THEN Len(setlist) ELSE CHOOSE i \in bad : \A j \in bad : i <= j

\* The loop (lines 277-326): the exception that ends it ("none" when it runs
\* to the end) and new_markers_df as it stands then.
NewMarkers(df, setlist) ==
  LET stop == FirstRaising(df, setlist)
  IN [err |-> IF stop < Len(setlist) THEN PassError(df, setlist, stop) ELSE "none",
      markers |->
        [j \in 1..(2 * stop + 1) |->
           IF j = 1 THEN SentinelMarker
           ELSE PassMarkers(df, setlist, (j - 2) \div 2)[((j - 2) % 2) + 1]]]

\* pd.concat([df, new_markers_df], ignore_index=True): the region rows, which
\* lack the three constant columns, then the new markers, labelled 0, 1, ...
ConcatRows(df, markers) ==
  [j \in 1..(Len(df) + Len(markers)) |->
     IF j <= Len(df)
     THEN [idx |-> j - 1, tag |-> df[j].tag, number |-> df[j].number,
           start_position |-> df[j].start_position,
           end_position |-> df[j].end_position, name |-> df[j].name,
           is_region |-> df[j].is_region, color |-> df[j].color,
           unkown_0 |-> NaN, unknown_1 |-> NaN, uuid |-> df[j].uuid,
           unkown_3 |-> NaN]
     ELSE [idx |-> j - 1] @@ markers[j - Len(df)]]

\* The comparison sort_values(by='start_position') makes on the cells of an
\* object column: strings as Python orders them, missing cells last.
SortsBefore(a, b) ==
  /\ ~IsNa(a.start_position)
  /\ IsNa(b.start_position) \/ StrLess(a.start_position, b.start_position)

RECURSIVE InsertRow(_, _)
InsertRow(sorted, r) ==
  IF sorted = <<>> THEN <<r>>
  ELSE IF SortsBefore(r, Head(sorted)) THEN <<r>> \o sorted
  ELSE <<Head(sorted)>> \o InsertRow(Tail(sorted), r)

RECURSIVE SortValues(_)
\* Line 330.  The default kind, quicksort, is numpy's insertion sort on fewer
\* than 17 rows, as every table sorted here is: rows with equal positions
\* keep their order.
SortValues(rows) ==
  IF rows = <<>> THEN <<>>
  ELSE InsertRow(SortValues(SubSeq(rows, 1, Len(rows) - 1)), rows[Len(rows)])

\* Lines 329-332: the table create_markers_from_setlist stores.
MarkersTable(df, markers) == SortValues(ConcatRows(df, markers))

(***************************************************************************)
(* create_new_rpp_file                                                     *)
(***************************************************************************)
FillNa(cell) == IF IsNa(cell) THEN <<>> ELSE cell

\* .loc[1:, 'tag']: the rows from the one labelled 1 to the last; none when
\* no row is labelled 1 (the index is then the single label 0).
FromLabelOne(rows, j) == \E i \in 1..j : rows[i].idx = 1

\* Lines 354-358: df_to_export as create_new_rpp_file leaves it.
PreparedTable(rows) ==
  [j \in 1..Len(rows) |->
     [idx |-> rows[j].idx,
      tag |-> IF FromLabelOne(rows, j) THEN <<SP, SP, KW>> ELSE <<KW>>,
      number |-> FillNa(rows[j].number),
      start_position |-> FillNa(rows[j].start_position),
      end_position |-> FillNa(rows[j].end_position),
      name |-> FillNa(rows[j].name),
      is_region |-> FillNa(rows[j].is_region),
      color |-> FillNa(rows[j].color),
      unkown_0 |-> <<"1">>, unknown_1 |-> <<"R">>,
      uuid |-> FillNa(rows[j].uuid),
      unkown_3 |-> <<"0">>]]

\* Lines 361-367: the name is quoted when it holds a space.
NameText(name) ==
  IF \E i \in 1..Len(name) : name[i] = SP THEN <<QT>> \o name \o <<QT, SP>>
  ELSE name \o <<SP>>

\* Line 370: the closing boundary line of a region row.
ClosingLine(r) ==
  <<SP, SP, KW, SP>> \o r.number \o <<SP>> \o r.end_position
    \o <<SP, QT, QT, SP, "1", NL>>

\* Lines 360-370: the text of one row.
RowText(r) ==
  r.tag \o <<SP>> \o r.number \o <<SP>> \o r.start_position \o <<SP>>
    \o NameText(r.name) \o r.is_region \o <<SP>> \o r.color \o <<SP>>
    \o r.unkown_0 \o <<SP>> \o r.unknown_1 \o <<SP>> \o r.uuid \o <<SP>>
    \o r.unkown_3 \o <<NL>>
    \o (IF r.is_region = <<"1">> THEN ClosingLine(r) ELSE <<>>)

OutputText(rows) == Concat([j \in 1..Len(rows) |-> RowText(rows[j])])

\* Line 376, re.sub(r'MARKER.*\n', '', text): from each line that a newline
\* ends, the text from the first MARKER of the line through the newline.
RemoveMarkerLines(t) ==
  LET lines == SplitLines(t)
  IN Concat([k \in 1..Len(lines) |->
               IF HasAtom(lines[k], KW) /\ EndsInNewline(lines[k])
               THEN SliceTo(lines[k], Find(lines[k], KW))
               ELSE lines[k]])

\* str.lstrip() of a line, whose newline stays.
Lstrip(line) ==
  LET body == {i \in 1..Len(line) : line[i] # SP}
  IN IF body = {} THEN <<>>
     ELSE SubSeq(line, CHOOSE i \in body : \A j \in body : i <= j, Len(line))

\* Lines 383-385: split on newlines, lstrip every line, join again.
LstripLines(t) ==
  LET lines == SplitLines(t) IN Concat([k \in 1..Len(lines) |-> Lstrip(lines[k])])

\* Lines 372-385: the new document from the original text and the block.
Splice(text, block) ==
  LET first_marker_pos == Find(text, KW)
      rpp_file_cleaned == RemoveMarkerLines(text)
      spliced == SliceTo(rpp_file_cleaned, first_marker_pos) \o block
                   \o SliceFrom(rpp_file_cleaned, first_marker_pos)
      projbay_pos == Find(spliced, PROJBAY)
  IN LstripLines(SliceTo(spliced, projbay_pos)) \o SliceFrom(spliced, projbay_pos)

(***************************************************************************)
(* The processor's operations as functions of its state.                   *)
(***************************************************************************)
\* set_setlist with the assignment made before the membership test.
SetlistStoredUnchecked(songs, stored, setlist) == setlist

\* set_setlist (lines 176-181): the stored setlist after the call.
SetlistAfter(songs, stored, setlist) ==
  IF \E i \in 1..Len(setlist) : setlist[i] \notin Range(songs) THEN stored
  ELSE setlist

SetlistAccepted(songs, setlist) ==
  \A i \in 1..Len(setlist) : setlist[i] \in Range(songs)

\* The table export_rpp_project leaves in df_to_export when no pass raises.
ExportTable(df, setlist) ==
  PreparedTable(MarkersTable(df, NewMarkers(df, setlist).markers))

\* The document create_new_rpp_file returns.
NewRppFile(text, table) == Splice(text, OutputText(table))

(***************************************************************************)
(* Inputs: project files.  A project is a header, a sequence of items and  *)
(* a footer; an item is one or more whole lines.                           *)
(***************************************************************************)
Pos0 == <<"0">>
Pos5 == <<"5">>
Pos10 == <<"1", "0">>
Pos20 == <<"2", "0">>
Pos30 == <<"3", "0">>
Pos40 == <<"4", "0">>
Pos100h == <<"1", "0", "0", ".", "5">>
Pos120 == <<"1", "2", "0">>

NameIntro == <<"Intro">>
NameVerse == <<"Verse">>
NameSongA == <<"Song", SP, "A">>
NamePad == <<"Pad">>
NameCue == <<"Cue">>
NameGhost == <<"Ghost">>

\* A marker line with all ten fields, as REAPER writes it.
MarkerLine(number, pos, nameField, is_region, color, guid) ==
  <<SP, SP, KW, SP, number, SP>> \o pos \o <<SP>> \o nameField
    \o <<SP, is_region, SP, color, SP, "1", SP, "R", SP, LB, guid, RB, SP, "0", NL>>

\* The line that closes a region: its number, its end, an empty name.
RegionEndLine(number, pos) ==
  <<SP, SP, KW, SP, number, SP>> \o pos \o <<SP, QT, QT, SP, "1", NL>>

Quoted(name) == <<QT>> \o name \o <<QT>>

ItemIntro == MarkerLine("1", Pos0, NameIntro, "1", "5", "G1") \o RegionEndLine("1", Pos10)
ItemVerse == MarkerLine("2", Pos10, NameVerse, "1", "5", "G2") \o RegionEndLine("2", Pos20)
ItemSongA ==
  MarkerLine("3", Pos20, Quoted(NameSongA), "1", "7", "G3") \o RegionEndLine("3", Pos100h)
ItemPad == MarkerLine("4", Pos100h, NamePad, "1", "0", "G4") \o RegionEndLine("4", Pos120)
ItemCue == MarkerLine("5", Pos5, NameCue, "0", "0", "G5")
\* A region with a point marker between its two lines, as REAPER writes the
\* markers of a project in the order of their positions.
ItemIntroCue ==
  MarkerLine("1", Pos0, NameIntro, "1", "5", "G1")
    \o MarkerLine("5", Pos5, NameCue, "0", "0", "G5") \o RegionEndLine("1", Pos10)
\* A second region named Intro, with color 0.
ItemIntro0 == MarkerLine("6", Pos30, NameIntro, "1", "0", "G6") \o RegionEndLine("6", Pos40)
\* A line that is no marker line and holds the keyword.
ItemTrack == <<SP, SP, "NAME", SP, QT, KW, SP, "TRACK", QT, NL>>
ItemLoop == <<SP, SP, "LOOP", SP, "0", NL>>
\* A region end line on its own.
ItemEnd == RegionEndLine("9", Pos30)
ItemProjBay == <<SP, SP, PROJBAY, NL, SP, SP, ">", NL>>

ItemPool ==
  {ItemIntro, ItemVerse, ItemSongA, ItemPad, ItemCue, ItemIntroCue, ItemIntro0,
   ItemTrack, ItemLoop, ItemEnd, ItemProjBay}

Header == <<"<REAPER_PROJECT", NL, SP, SP, "TEMPO", SP, "1", "2", "0", NL>>

Footer == <<">", NL>>

Project(items) == Header \o Concat(items) \o Footer

RECURSIVE ItemSeqs(_)
\* The sequences of at most n items.
ItemSeqs(n) ==
  IF n = 0 THEN {<<>>}
  ELSE ItemSeqs(n - 1) \cup {Append(s, i) : s \in ItemSeqs(n - 1), i \in ItemPool}

MaxItems == 2

Projects == {Project(s) : s \in ItemSeqs(MaxItems)}

\* The projects of a session in which several are loaded: at most one item.
SessionProjects == {Project(s) : s \in ItemSeqs(1)}

FileNames == {"a.rpp"}

NoName == "None"

SongNames == {NameIntro, NameVerse, NameSongA, NamePad, NameGhost}

\* In a session: a song of a project, a region that is no song, and a name
\* that no region has.
SessionNames == {NameIntro, NamePad, NameGhost}

MaxSetlistLen == 2

RECURSIVE NameSeqs(_, _)
NameSeqs(names, n) ==
  IF n = 0 THEN {<<>>}
  ELSE NameSeqs(names, n - 1)
         \cup {Append(s, x) : s \in NameSeqs(names, n - 1), x \in names}

\* The setlists requested: the short ones, and for each name the list that
\* repeats it once more than marker_map has entries.
SetlistsOver(names) ==
  NameSeqs(names, MaxSetlistLen)
    \cup {[i \in 1..(MarkerMapSize + 1) |-> x] : x \in names}

SetlistInputs == SetlistsOver(SongNames)

SessionSetlistInputs == SetlistsOver(SessionNames)

(***************************************************************************)
(* The state machine.                                                      *)
(***************************************************************************)
VARIABLES rpp_file, original_project_name, project_df, song_list,
          current_setlist, df_to_export, new_rpp_file, last_op, outcome

vars == <<rpp_file, original_project_name, project_df, song_list,
          current_setlist, df_to_export, new_rpp_file, last_op, outcome>>

\* __init__ (lines 36-42).
Init ==
  /\ rpp_file = <<>>
  /\ original_project_name = NoName
  /\ project_df = <<>>
  /\ song_list = <<>>
  /\ current_setlist = <<>>
  /\ df_to_export = <<>>
  /\ new_rpp_file = <<>>
  /\ last_op = "init"
  /\ outcome = "ok"

\* POST /load_project (api.py 16-22) and load_project (lines 66-102).  The
\* name and the text are stored before the frame is built; when the frame is
\* refused the call ends there with ValueError.
LoadProject(text, file_name) ==
  /\ original_project_name' = file_name
  /\ rpp_file' = text
  /\ last_op' = "load_project"
  /\ IF FrameAccepted(MarkerFields(text))
     THEN /\ project_df' = LoadedTable(text)
          /\ song_list' = ExtractSongs(LoadedTable(text), song_list)
          /\ outcome' = "ok"
     ELSE /\ outcome' = "ValueError"
          /\ UNCHANGED <<project_df, song_list>>
  /\ UNCHANGED <<current_setlist, df_to_export, new_rpp_file>>

\* POST /set_setlist (api.py 30-33) and set_setlist (lines 176-182).
SetSetlist(setlist) ==
  /\ current_setlist' = SetlistAfter(song_list, current_setlist, setlist)
  /\ outcome' = IF SetlistAccepted(song_list, setlist) THEN "ok" ELSE "rejected"
  /\ last_op' = "set_setlist"
  /\ UNCHANGED <<rpp_file, original_project_name, project_df, song_list,
                 df_to_export, new_rpp_file>>

\* GET /export_rpp_project (api.py 39-42): create_markers_from_setlist, then
\* create_new_rpp_file.  A pass of the loop that raises ends the call before
\* anything is stored; the missing file name raises at line 388, after the
\* table and the document are stored.
Export ==
  /\ last_op' = "export_rpp_project"
  /\ IF NewMarkers(project_df, current_setlist).err # "none"
     THEN /\ outcome' = NewMarkers(project_df, current_setlist).err
          /\ UNCHANGED <<df_to_export, new_rpp_file>>
     ELSE /\ df_to_export' = ExportTable(project_df, current_setlist)
          /\ new_rpp_file' =
               NewRppFile(rpp_file, ExportTable(project_df, current_setlist))
          /\ outcome' = IF original_project_name = NoName THEN "AttributeError"
                        ELSE "ok"
  /\ UNCHANGED <<rpp_file, original_project_name, project_df, song_list,
                 current_setlist>>

\* One session of the API on the one processor: projects of at most one
\* item, loaded in any number and order.
Next ==
  \/ \E text \in SessionProjects, file_name \in FileNames :
       LoadProject(text, file_name)
  \/ \E setlist \in SessionSetlistInputs : SetSetlist(setlist)
  \/ Export

Spec == Init /\ [][Next]_vars

\* One project of up to MaxItems items, loaded once on a new processor.
NextPipeline ==
  \/ \E text \in Projects, file_name \in FileNames :
       original_project_name = NoName /\ LoadProject(text, file_name)
  \/ \E setlist \in SetlistInputs : SetSetlist(setlist)
  \/ Export

SpecPipeline == Init /\ [][NextPipeline]_vars

\* The extractor and the setlist assignment alone: no export.
NextAssign ==
  \/ \E text \in SessionProjects, file_name \in FileNames :
       LoadProject(text, file_name)
  \/ \E setlist \in SetlistInputs : SetSetlist(setlist)

SpecAssign == Init /\ [][NextAssign]_vars

(***************************************************************************)
(* Reading a document, for the statements about documents: the marker      *)
(* lines are the lines whose first token after the indentation is MARKER;  *)
(* a region is an opening line (is_region 1, a name) and the next closing  *)
(* line (is_region 1, the empty quoted name) that carries its number.      *)
(***************************************************************************)
IsMarkerLine(line) == Lstrip(line) # <<>> /\ Head(Lstrip(line)) = KW

MarkerLinesOf(text) ==
  LET ls == SelectSeq(SplitLines(text), IsMarkerLine)
  IN [k \in 1..Len(ls) |-> SplitFields(Chomp(Lstrip(ls[k])))]

IsOpening(f) == Len(f) >= 6 /\ f[5] = <<"1">> /\ Without(f[4], QT) # <<>>

IsClosing(f) == Len(f) >= 5 /\ f[5] = <<"1">> /\ f[4] = <<QT, QT>>

IsPoint(f) == Len(f) >= 5 /\ f[5] = <<"0">>

Unbraced(cell) == Without(Without(cell, LB), RB)

\* The closing line of the opening line k: the index of the first closing
\* line after k with the same number, 0 when there is none.
ClosingOf(ml, k) ==
  LET c == {j \in (k + 1)..Len(ml) : IsClosing(ml[j]) /\ ml[j][2] = ml[k][2]}
  IN IF c = {} THEN 0 ELSE CHOOSE j \in c : \A x \in c : j <= x

RegionAt(ml, k) ==
  [number |-> ml[k][2], start |-> ml[k][3], name |-> Without(ml[k][4], QT),
   color |-> ml[k][6], uuid |-> Unbraced(Cell(ml[k], 9)),
   end |-> IF ClosingOf(ml, k) = 0 THEN None ELSE ml[ClosingOf(ml, k)][3]]

\* The regions of a document, in the order of their opening lines.
RegionsOf(text) ==
  LET ml == MarkerLinesOf(text)
      open == Ascending({k \in 1..Len(ml) : IsOpening(ml[k])})
  IN [x \in 1..Len(open) |-> RegionAt(ml, open[x])]

\* The point markers of a document: position and name.
PointMarkersOf(text) ==
  LET ml == MarkerLinesOf(text)
      pts == Ascending({k \in 1..Len(ml) : IsPoint(ml[k])})
  IN [x \in 1..Len(pts) |-> [start |-> ml[pts[x]][3], name |-> Without(ml[pts[x]][4], QT)]]

\* The value of a position, in tenths.
Tenths(cell) ==
  LET d == Find(cell, ".")
  IN 10 * IntegerPart(cell) + (IF d # -1 /\ d + 2 <= Len(cell) THEN DigitVal(cell[d + 2]) ELSE 0)

\* The rows of a table that are point markers.
PointRows(table) == SelectSeq(table, LAMBDA r : r.is_region = <<"0">>)

Exported == last_op = "export_rpp_project" /\ outcome = "ok"

ExportCalled == last_op = "export_rpp_project"

Loaded == original_project_name # NoName

SentinelName == <<"!", "4", "0", "1", "6", "1">>

(***************************************************************************)
(* C1.  set_setlist is atomic: when an entry of the requested list is not  *)
(* in the song list the stored setlist stays exactly as it was, and when   *)
(* every entry is in the song list the stored setlist becomes the          *)
(* requested list, same order, duplicates kept.                            *)
(***************************************************************************)
C1_SetlistAtomic ==
  [][\A setlist \in SetlistInputs :
       SetSetlist(setlist) =>
         IF \E i \in 1..Len(setlist) : setlist[i] \notin Range(song_list)
         THEN current_setlist' = current_setlist
         ELSE current_setlist' = setlist]_vars

\* A request was rejected while a setlist was stored.
C1_Witness ==
  last_op = "set_setlist" /\ outcome = "rejected" /\ Len(current_setlist) = 2

\* An export was called on a loaded project whose stored setlist is accepted
\* by the current song list.
ExportOfAccepted ==
  ExportCalled /\ Loaded /\ SetlistAccepted(song_list, current_setlist)

\* The point rows of the export table as (position, name) pairs.
PointPairs == {<<r.start_position, r.name>> : r \in Range(PointRows(df_to_export))}

(***************************************************************************)
(* C2.  For a loaded project and an accepted setlist of length n, the      *)
(* export adds exactly 2n+1 point markers to the region rows: the sentinel *)
(* at position 1 named !40161 and, for each index i, a marker numbered i+1 *)
(* with the name of setlist[i] at the start of a region of that name, plus *)
(* one skip marker.  For Intro (0..10), Verse (10..20) and the setlist     *)
(* [Intro, Verse] the markers are the sentinel at 1, Intro at 0, the skip  *)
(* at 9 named by marker_map[2], Verse at 10, the skip at 19 named 1016+1.  *)
(***************************************************************************)
C2_MarkersAdded ==
  ExportOfAccepted =>
    LET n == Len(current_setlist)
        pm == PointRows(df_to_export)
    IN /\ Len(pm) = 2 * n + 1
       /\ \E r \in Range(pm) : r.start_position = <<"1">> /\ r.name = SentinelName
       /\ \A i \in 0..(n - 1) :
            \E r \in Range(pm) :
              /\ r.number = IntToStr(i + 1)
              /\ r.name = current_setlist[i + 1]
              /\ \E g \in Range(project_df) :
                   g.name = r.name /\ g.start_position = r.start_position
       /\ (rpp_file = Project(<<ItemIntro, ItemVerse>>)
             /\ current_setlist = <<NameIntro, NameVerse>>)
          => PointPairs = {<<(<<"1">>), SentinelName>>,
                           <<Pos0, NameIntro>>,
                           <<(<<"9">>), <<"!">> \o NatToStr(marker_map[2])>>,
                           <<Pos10, NameVerse>>,
                           <<(<<"1", "9">>), <<"!">> \o NatToStr(LastSkipBase + 1)>>}

\* The same statement of the exports that complete.
C2_WhenExportCompletes == outcome = "ok" => C2_MarkersAdded

(***************************************************************************)
(* C3.  The rows of the export are ordered by start_position compared as   *)
(* numbers: of any two rows, the one with the smaller position comes       *)
(* first ("9" before "10", "20" before "100").                             *)
(***************************************************************************)
C3_NumericOrder ==
  Exported =>
    \A i, j \in 1..Len(df_to_export) :
      (i < j /\ IsDecimal(df_to_export[i].start_position)
             /\ IsDecimal(df_to_export[j].start_position))
        => Tenths(df_to_export[i].start_position)
             <= Tenths(df_to_export[j].start_position)

(***************************************************************************)
(* C4.  For the setlist entry at index i of a setlist of length n, the     *)
(* skip marker is numbered n+i+1 and stands at the integer truncation of   *)
(* the end of that song's region minus 1 (a region from 10 to 20 has its   *)
(* skip marker at 19).  Stated of the exports that complete.               *)
(***************************************************************************)
C4_SkipPosition ==
  (Exported /\ ExportOfAccepted) =>
    LET n == Len(current_setlist)
        regions == RegionsOf(rpp_file)
    IN \A i \in 0..(n - 1) :
         \E r \in Range(PointRows(df_to_export)) :
           /\ r.number = IntToStr(n + i + 1)
           /\ \E g \in Range(regions) :
                /\ g.name = current_setlist[i + 1]
                /\ IsDecimal(g.end)
                /\ r.start_position = IntToStr(EndMinusOne(g.end))

(***************************************************************************)
(* C5.  The skip marker of entry i of a setlist of length n is named by    *)
(* marker_map[i+2] when i < n-1 and by 1016+i when i = n-1; every index    *)
(* looked up is in the table, so the name is defined for every entry of    *)
(* every accepted setlist.                                                 *)
(***************************************************************************)
C5_LookupDefined ==
  ExportOfAccepted =>
    LET n == Len(current_setlist)
    IN /\ \A i \in 0..(n - 2) : (i + 2) \in DOMAIN marker_map
       /\ outcome # "KeyError"
       /\ \A i \in 0..(n - 1) :
            \E r \in Range(PointRows(df_to_export)) :
              /\ r.number = IntToStr(n + i + 1)
              /\ r.name = <<"!">> \o NatToStr(IF i < n - 1 THEN marker_map[i + 2]
                                              ELSE LastSkipBase + i)

\* The same statement of the setlists of at most as many entries as the table.
C5_WithinTable ==
  Len(current_setlist) <= MarkerMapSize /\ outcome = "ok" => C5_LookupDefined

(***************************************************************************)
(* C6.  Round trip on the empty setlist: the export of a loaded project    *)
(* with an empty setlist is a document whose regions are those of the      *)
(* input, in content and in order, in which no point marker of the input   *)
(* remains and to which exactly one marker, the sentinel, is added.        *)
(***************************************************************************)
C6_EmptySetlistRoundTrip ==
  (Exported /\ Loaded /\ current_setlist = <<>>) =>
    /\ RegionsOf(new_rpp_file) = RegionsOf(rpp_file)
    /\ PointMarkersOf(new_rpp_file) = <<[start |-> <<"1">>, name |-> SentinelName]>>

(***************************************************************************)
(* C7.  Every region of the input is in the export, for any setlist: its   *)
(* opening line with the same number, start, name, color and uuid,         *)
(* followed at once by a closing line with the same number and the end of  *)
(* the region's own closing line in the input, whatever lines lie between  *)
(* the two in the input.                                                   *)
(***************************************************************************)
C7_RegionsPreserved ==
  (Exported /\ Loaded) =>
    LET ml == MarkerLinesOf(new_rpp_file)
    IN \A g \in Range(RegionsOf(rpp_file)) :
         \E k \in 1..(Len(ml) - 1) :
           /\ IsOpening(ml[k])
           /\ RegionAt(ml, k).number = g.number
           /\ RegionAt(ml, k).start = g.start
           /\ RegionAt(ml, k).name = g.name
           /\ RegionAt(ml, k).color = g.color
           /\ RegionAt(ml, k).uuid = g.uuid
           /\ IsClosing(ml[k + 1])
           /\ ml[k + 1][2] = g.number
           /\ ml[k + 1][3] = g.end

\* The names of the regions of a document whose color is not 0.
ColoredRegionNames(text) ==
  {g.name : g \in {x \in Range(RegionsOf(text)) : x.color # <<"0">>}}

LoadDone == last_op = "load_project" /\ outcome = "ok"

(***************************************************************************)
(* C8.  After load_project the song list holds a name exactly when a       *)
(* region row of that name has a color other than 0, each such name once,  *)
(* in ascending order.                                                     *)
(***************************************************************************)
C8_SongList ==
  LoadDone => song_list = SortedStrings(ColoredRegionNames(rpp_file))

(***************************************************************************)
(* C9.  Each load is fresh: after load_project(X) the region table and the *)
(* song list are those a new processor makes of X, whatever was loaded     *)
(* before, also when X has no marker lines or no regions.                  *)
(***************************************************************************)
C9_FreshLoad ==
  LoadDone =>
    /\ project_df = LoadedTable(rpp_file)
    /\ song_list = ExtractSongs(LoadedTable(rpp_file), <<>>)

\* The index of the line of the anchor, one past the last line when the
\* text has no anchor.
AnchorLine(lines) ==
  LET a == {k \in 1..Len(lines) : HasAtom(lines[k], PROJBAY)}
  IN IF a = {} THEN Len(lines) + 1 ELSE CHOOSE k \in a : \A x \in a : k <= x

RECURSIVE Embedded(_, _, _, _)
\* The lines ks of the original occur in out, in order: each unchanged, or,
\* up to the line of the anchor, without its indentation.
Embedded(lines, ks, anchor, out) ==
  IF ks = <<>> THEN TRUE
  ELSE IF out = <<>> THEN FALSE
  ELSE IF \/ Head(out) = lines[Head(ks)]
          \/ Head(ks) <= anchor /\ Head(out) = Lstrip(lines[Head(ks)])
       THEN Embedded(lines, Tail(ks), anchor, Tail(out))
       ELSE Embedded(lines, ks, anchor, Tail(out))

(***************************************************************************)
(* C10.  In the exported document every line of the original that is no    *)
(* marker line is present, unchanged and in its original order, except     *)
(* that a line before the <PROJBAY anchor may lose its indentation; a line *)
(* that is no marker line and holds the keyword MARKER is kept whole.      *)
(***************************************************************************)
C10_OtherLinesKept ==
  (Exported /\ Loaded) =>
    LET lines == SplitLines(rpp_file)
        others == Ascending({k \in 1..Len(lines) : ~IsMarkerLine(lines[k])})
    IN Embedded(lines, others, AnchorLine(lines), SplitLines(new_rpp_file))

(***************************************************************************)
(* C11.  load_project is all-or-nothing: a load that ends in an error      *)
(* (a marker line that does not split into the expected fields) leaves the *)
(* raw text, the file name, the region table, the song list and the        *)
(* setlist exactly as they were before the call.                           *)
(***************************************************************************)
C11_LoadAllOrNothing ==
  [][\A text \in SessionProjects, file_name \in FileNames :
       (LoadProject(text, file_name) /\ outcome' # "ok") =>
         UNCHANGED <<rpp_file, original_project_name, project_df, song_list,
                     current_setlist>>]_vars

(***************************************************************************)
(* C12.  An export on a processor on which no project was loaded, or whose *)
(* region table is empty, ends in the no-project error and makes no export *)
(* table and no document.                                                  *)
(***************************************************************************)
C12_NoProjectError ==
  [][(Export /\ (~Loaded \/ project_df = <<>>)) =>
       /\ outcome' = "NoSetlistLoadedError"
       /\ UNCHANGED <<df_to_export, new_rpp_file>>]_vars

\* Some entry of the stored setlist names no row of the region table.
SetlistEntryMissing ==
  \E i \in 1..Len(current_setlist) : RowsNamed(project_df, current_setlist[i]) = <<>>

(***************************************************************************)
(* C13.  An export while some entry of the stored setlist names no row of  *)
(* the region table ends in the error of the position lookup, and leaves   *)
(* the region table, the stored setlist and the export table built before  *)
(* as they were.                                                           *)
(***************************************************************************)
C13_PositionNotFound ==
  [][(Export /\ SetlistEntryMissing) =>
       /\ outcome' = "SongPositionNotFoundError"
       /\ UNCHANGED <<project_df, current_setlist, df_to_export>>]_vars

\* The same statement with the exception the lookup of line 279 raises.
C13_LookupRaises ==
  [][(Export /\ SetlistEntryMissing) =>
       /\ outcome' = "IndexError"
       /\ UNCHANGED <<project_df, current_setlist, df_to_export>>]_vars

(***************************************************************************)
(* C14.  In every state of a session every entry of the stored setlist is  *)
(* in the song list, and every name of the song list is the name of a      *)
(* region row of the region table.                                         *)
(***************************************************************************)
C14_SetlistWithinTable ==
  /\ \A i \in 1..Len(current_setlist) : current_setlist[i] \in Range(song_list)
  /\ \A i \in 1..Len(song_list) :
       \E r \in Range(project_df) : r.name = song_list[i] /\ r.is_region = <<"1">>

====
